---- MODULE Spec2Model ----
(***************************************************************************)
(* A model of face_auth/api/face.py: the whitelisted handlers              *)
(* register_face, update_face, reset_face_registration and match_face      *)
(* over the Employee store, the File (attachment) store, the files         *)
(* directory on disk and the Employee Checkin sink.                        *)
(* The handlers run one at a time under Spec and its parts, and as steps   *)
(* of two concurrent requests under SpecConcurrentUpdate and               *)
(* SpecConcurrentVerify; get_shift_time_range is applied under SpecShift.  *)
(*                                                                         *)
(* Units.  Face distances are integers in units of 1e-5, the outward       *)
(* facing distance is in units of 1e-4 (4 decimals), a confidence before   *)
(* rounding is in units of 1e-3 and after rounding in units of 1e-1        *)
(* (1 decimal).  Geographic distances are in metres; a latitude is the     *)
(* arc length in metres from the equator along the meridian Meridian.      *)
(***************************************************************************)
EXTENDS Integers, Sequences, FiniteSets, TLC

\* ---------------------------------------------------------------- bounds
MaxEmployees == 2
MaxFiles == 2
MaxCheckins == 1

\* ------------------------------------------------------------- constants
Threshold == 50000
DefaultRadius == 500
None == -1
Meridian == 77

EmpIds == 1..MaxEmployees
\* The file names the File store hands out: those of MaxFiles documents and
\* one more, for the document of a second request in flight.
StoredNames == 1..(MaxFiles + 1)
CaptureName == 0
FileNames == {CaptureName} \cup StoredNames

\* ---------------------------------------------------------------- images
\* A picture is what an image file shows; raw tells whether the file is as
\* captured (EXIF orientation, any size, any mode) or as saved by
\* correct_image_orientation (upright, at most 1200 px, RGB JPEG).
PicCorrupt == 1
PicNoFace == 2
Pics == 1..4
NoFile == [exists |-> FALSE, pic |-> 0, raw |-> FALSE]
Upload(pic) == [exists |-> TRUE, pic |-> pic, raw |-> TRUE]

Decodable(pic) == pic # PicCorrupt

\* face_recognition.face_encodings: the embeddings of the faces of a
\* picture, in the encoder's order.  Embeddings lie on a line.
face_encodings(pic) ==
  CASE pic = 3 -> << 0 >>
    [] pic = 4 -> << 50004 >>
    [] OTHER -> << >>

Abs(x) == IF x < 0 THEN -x ELSE x

\* face_recognition.face_distance: the Euclidean norm of the difference,
\* which on a line is the absolute difference.
face_distance(ref_encoding, uploaded_encoding) == Abs(ref_encoding - uploaded_encoding)

\* Python's round(): to the nearest multiple of q, ties to the even one.
RoundHalfEven(n, q) ==
  LET f == n \div q
      r == n % q
  IN  IF 2 * r < q THEN f
      ELSE IF 2 * r > q THEN f + 1
      ELSE IF f % 2 = 0 THEN f ELSE f + 1

Min(a, b) == IF a < b THEN a ELSE b
Max(a, b) == IF a > b THEN a ELSE b

\* confidence = max(0, min(100, (1.0 - distance) * 100)), in units of 1e-3
Confidence(distance) == Max(0, Min(100000, 100000 - distance))
MatchResultStrict(distance) == distance < Threshold
\* match_result = distance <= 0.5
MatchResult(distance) == distance <= Threshold
\* round(float(distance), 4) and round(confidence, 1)
RoundDistance(distance) == RoundHalfEven(distance, 10)
RoundConfidence(confidence) == RoundHalfEven(confidence, 100)

\* calculate_distance: the haversine distance.  For two points of one
\* meridian a = sin(dlat/2)^2 and c = |dlat|, so the distance is the arc
\* between the latitudes; for two points of the equator it is the arc
\* between the longitudes.
calculate_distance(lat1, lon1, lat2, lon2) ==
  CASE lon1 = lon2 -> Abs(lat2 - lat1)
    [] lon1 # lon2 /\ lat1 = 0 /\ lat2 = 0 -> Abs(lon2 - lon1)

\* ----------------------------------------------------------------- state
VARIABLES employees, files, fileSeq, disk, checkins, last, evaluated, calls, resolved,
          locations, computed

vars == << employees, files, fileSeq, disk, checkins, last, evaluated, calls, resolved, locations, computed >>

\* The response dict of a handler: keys are the keys it carries.
NoResp ==
  [keys |-> {}, status |-> "", message |-> "", matched |-> FALSE,
   reason |-> "", error |-> "", distance |-> 0, confidence |-> 0,
   checkin_saved |-> FALSE, distance_from_office |-> 0, geofence_radius |-> 0]

Message(m) == [NoResp EXCEPT !.keys = {"message"}, !.message = m]
Status(s, m) == [NoResp EXCEPT !.keys = {"status", "message"}, !.status = s, !.message = m]
Reason(r) == [NoResp EXCEPT !.keys = {"matched", "reason"}, !.reason = r]
ErrorRaised(e) == [NoResp EXCEPT !.error = e]
Error(e) == [NoResp EXCEPT !.keys = {"matched", "error"}, !.error = e]

\* The last call: the handler, the employee_id, the image and the location of
\* the request,
\* the collaborator call that raised, the response, whether the handler ran
\* the encoder on the uploaded image and whether it left its staged upload on
\* disk.
NoCall ==
  [op |-> "none", employee_id |-> 0, image |-> 0, latitude |-> None,
   longitude |-> None, fault |-> "none",
   encoded |-> FALSE, temp_left |-> FALSE, resp |-> NoResp]

\* The last application of the Match Evaluator to a pair of embeddings.
NoEvaluation == [ref_encoding |-> 0, uploaded_encoding |-> 0, resp |-> NoResp]

\* The requests in flight: two worker processes serve requests concurrently.
\* pc is the position of the handler, listed the File documents its
\* frappe.get_all returned, alone the response the request gets when no other
\* request runs beside it.
Procs == {"w1", "w2"}
Idle == [pc |-> "idle"]

\* The last result of get_shift_time_range.
NoWindow == [called |-> FALSE]

\* The last result of a query or of a computation: the function called.
NoResult == [fn |-> "none"]

Init ==
  /\ employees = << >>
  /\ files = {}
  /\ fileSeq = 0
  /\ disk = [n \in FileNames |-> NoFile]
  /\ checkins = << >>
  /\ last = NoCall
  /\ evaluated = NoEvaluation
  /\ calls = [p \in Procs |-> Idle]
  /\ resolved = NoWindow
  /\ locations = {}
  /\ computed = NoResult

\* ------------------------------------------------------------ collaborators
correct_image_orientation_unchecked(dsk, path) == [ok |-> TRUE, disk |-> dsk]
\* correct_image_orientation: rewrites the file at path in place as an
\* upright RGB JPEG and returns True, or returns False when the file cannot
\* be opened or decoded.
correct_image_orientation(dsk, path) ==
  IF dsk[path].exists /\ Decodable(dsk[path].pic)
  THEN [ok |-> TRUE, disk |-> [dsk EXCEPT ![path].raw = FALSE]]
  ELSE [ok |-> FALSE, disk |-> dsk]

\* corrected_file_content: what correct_image_orientation leaves of an
\* uploaded picture.
Normalized(pic) == [exists |-> TRUE, pic |-> pic, raw |-> FALSE]

HasFaceUnchecked(encodings) == TRUE
\* "if not encodings": the encoder found a face.
HasFace(encodings) == encodings # << >>

remove_files_skipped(dsk, paths) == dsk
\* os.remove of the paths of temp_files that exist.
remove_files(dsk, paths) == [n \in FileNames |-> IF n \in paths THEN NoFile ELSE dsk[n]]

\* The File documents attached to an Employee.
Attachments(fls, employee_id) == {f \in fls : f.attached_to_name = employee_id}

\* get_employee_reference_image: the latest File document attached to the
\* Employee, or NoDoc (None) when there is none.
NoDoc == [name |-> 0, attached_to_name |-> 0, file_name |-> 0]
get_last_file(fls, employee_id) ==
  IF fls = {} THEN NoDoc ELSE CHOOSE f \in fls : \A g \in fls : g.name <= f.name
get_employee_reference_image(fls, employee_id) ==
  LET att == Attachments(fls, employee_id)
  IN  IF att = {} THEN NoDoc
      ELSE CHOOSE f \in att : \A g \in att : g.name <= f.name

\* File.delete / frappe.delete_doc("File", ...): removes the File documents
\* and their files on disk.
delete_file_docs(fls, dsk, docs) ==
  [files |-> fls \ docs,
   disk |-> [n \in FileNames |-> IF \E f \in docs : f.file_name = n THEN NoFile ELSE dsk[n]]]

\* frappe.get_doc({"doctype": "Employee", ...}): a new Employee document
\* built from the form fields, with face_registered = 1.
NewEmployee(form) ==
  [first_name |-> form.first_name, face_registered |-> 1,
   office_latitude |-> form.office_latitude,
   office_longitude |-> form.office_longitude,
   geofence_radius |-> None]

LastEmployeeName(emps) == Max(1, Len(emps))
\* employee.save(): the name the store gives the new Employee document,
\* which the File document is attached to (employee.name).
NewEmployeeName(emps) == Len(emps) + 1

\* frappe.get_doc({"doctype": "File", ...}) and save(): the new File
\* document; the store writes its content under a file name of its own.
NewFile(fseq, employee_name) ==
  [name |-> fseq + 1, attached_to_name |-> employee_name, file_name |-> fseq + 1]

\* The form fields of a request.
Form(first_name, office_latitude, office_longitude) ==
  [first_name |-> first_name, office_latitude |-> office_latitude,
   office_longitude |-> office_longitude]
NoForm == Form("ann", None, None)
Forms ==
  {NoForm, Form("bob", 1000, Meridian)}

\* The collaborator call that raises during a request.
Faults == {"none", "encoder", "employee_save", "file_save"}

\* ---------------------------------------------------------- register_face
\* image = 0 stands for a request without an image file.  The result is the
\* stores as the handler leaves them, the fault that occurred and the
\* response.
register_face(form, image, fault) ==
  LET unchanged == [employees |-> employees, files |-> files, fileSeq |-> fileSeq,
                    disk |-> disk, encoded |-> FALSE, temp_left |-> FALSE,
                    saved |-> FALSE, fault |-> "none", resp |-> NoResp]
      staged == [unchanged EXCEPT !.temp_left = TRUE]
      encoded == [unchanged EXCEPT !.encoded = TRUE]
      employee_name == NewEmployeeName(employees)
      saved == [encoded EXCEPT !.employees = Append(employees, NewEmployee(form)),
                               !.saved = TRUE]
      file_doc == NewFile(fileSeq, employee_name)
  IN  IF image = 0 THEN [unchanged EXCEPT !.resp = Message("no_image_provided")]
      ELSE IF ~Decodable(image)
      THEN [staged EXCEPT !.resp = Message("image_processing_failed")]
      ELSE IF fault = "encoder"
      THEN [staged EXCEPT !.encoded = TRUE, !.fault = fault,
                          !.resp = Message("face_encoding_failed")]
      ELSE IF ~HasFace(face_encodings(image))
      THEN [staged EXCEPT !.encoded = TRUE, !.resp = Message("no_face_detected")]
      ELSE IF fault = "employee_save"
      THEN [encoded EXCEPT !.saved = TRUE, !.fault = fault,
                           !.resp = Message("attachment_save_failed")]
      ELSE IF fault = "file_save"
      THEN [saved EXCEPT !.fault = fault, !.resp = Message("attachment_save_failed")]
      ELSE [saved EXCEPT !.files = files \cup {file_doc},
                         !.fileSeq = fileSeq + 1,
                         !.disk = [n \in FileNames |->
                                     IF n = file_doc.file_name THEN Normalized(image)
                                     ELSE disk[n]],
                         !.resp = Message("success")]

Register(form, image, fault) ==
  \E out \in {register_face(form, image, fault)} :
    /\ out.fault = fault
    /\ out.saved \/ form = NoForm
    /\ Len(out.employees) <= MaxEmployees
    /\ out.fileSeq <= MaxFiles
    /\ employees' = out.employees
    /\ files' = out.files
    /\ fileSeq' = out.fileSeq
    /\ disk' = out.disk
    /\ UNCHANGED << checkins, evaluated, calls, resolved, locations, computed >>
    /\ last' = [NoCall EXCEPT !.op = "register", !.image = image, !.fault = fault,
                              !.encoded = out.encoded,
                              !.temp_left = out.temp_left, !.resp = out.resp]

\* ------------------------------------------------- reset_face_registration
\* failing: the attachments whose frappe.delete_doc raises.
reset_face_registration(employee_id, failing) ==
  LET unchanged == [employees |-> employees, files |-> files, disk |-> disk,
                    resp |-> NoResp]
      exists == employee_id \in 1..Len(employees)
      flagged == [employees EXCEPT ![employee_id].face_registered = 0]
      attachments == Attachments(files, employee_id)
      deleted == delete_file_docs(files, disk, attachments \ failing)
  IN  IF ~exists
      THEN [unchanged EXCEPT !.resp = Status("error", "invalid_employee_id")]
      ELSE IF attachments = {}
      THEN [unchanged EXCEPT !.employees = flagged,
                             !.resp = Status("success", "reset_but_no_attachments_found")]
      ELSE [employees |-> flagged, files |-> deleted.files, disk |-> deleted.disk,
            resp |-> Status("success", "face_registration_reset_successfully")]

Reset(employee_id, failing) ==
  \E out \in {reset_face_registration(employee_id, failing)} :
    /\ failing \subseteq Attachments(files, employee_id)
    /\ employees' = out.employees
    /\ files' = out.files
    /\ disk' = out.disk
    /\ UNCHANGED << fileSeq, checkins, evaluated, calls, resolved, locations, computed >>
    /\ last' = [NoCall EXCEPT !.op = "reset", !.employee_id = employee_id,
                              !.fault = IF failing = {} THEN "none" ELSE "delete",
                              !.resp = out.resp]

\* ------------------------------------------------------------- update_face
\* failing: the name of the File document whose delete raises, 0 for none.
\* frappe.get_all lists the newest document first.
update_face(employee_id, form, image, fault, failing) ==
  LET unchanged == [employees |-> employees, files |-> files, fileSeq |-> fileSeq,
                    disk |-> disk, encoded |-> FALSE, temp_left |-> FALSE,
                    saved |-> FALSE, cleaned |-> FALSE, fault |-> "none",
                    resp |-> NoResp]
      ref_file_doc == get_employee_reference_image(files, employee_id)
      upload_path_last == ref_file_doc.file_name
      staged == [unchanged EXCEPT !.temp_left = TRUE]
      attachments == Attachments(files, employee_id)
      before == IF failing = 0 THEN attachments
                ELSE {f \in attachments : f.name > failing}
      removed == delete_file_docs(files, disk, before)
      cleaned == [staged EXCEPT !.files = removed.files, !.disk = removed.disk,
                                !.encoded = TRUE, !.cleaned = TRUE]
      employee_name == NewEmployeeName(employees)
      file_doc == NewFile(fileSeq, employee_name)
      saved == [cleaned EXCEPT !.employees = Append(employees, NewEmployee(form)),
                               !.saved = TRUE]
      installed == [saved EXCEPT !.files = removed.files \cup {file_doc},
                                 !.fileSeq = fileSeq + 1,
                                 !.disk = [n \in FileNames |->
                                             IF n = file_doc.file_name
                                             THEN Normalized(image)
                                             ELSE removed.disk[n]]]
      finally(out) == [out EXCEPT !.disk = remove_files(out.disk, {upload_path_last}),
                                  !.temp_left = FALSE]
  IN  IF ref_file_doc = NoDoc
      THEN [unchanged EXCEPT !.resp = Reason("reference_image_missing")]
      ELSE IF image = 0 THEN [unchanged EXCEPT !.resp = Message("no_image_provided")]
      ELSE IF ~Decodable(image)
      THEN [staged EXCEPT !.resp = Message("image_processing_failed")]
      ELSE IF fault = "encoder"
      THEN [staged EXCEPT !.encoded = TRUE, !.fault = fault,
                          !.resp = Message("face_encoding_failed")]
      ELSE IF ~HasFace(face_encodings(image))
      THEN [staged EXCEPT !.encoded = TRUE, !.resp = Message("no_face_detected")]
      ELSE IF failing # 0
      THEN [cleaned EXCEPT !.resp = Message("cleanup_failed")]
      ELSE IF fault = "employee_save"
      THEN finally([cleaned EXCEPT !.saved = TRUE, !.fault = fault,
                                   !.resp = Message("update_failed")])
      ELSE IF fault = "file_save"
      THEN finally([saved EXCEPT !.fault = fault, !.resp = Message("update_failed")])
      ELSE finally([installed EXCEPT !.resp = Message("updated")])

Update(employee_id, form, image, fault, failing) ==
  \E out \in {update_face(employee_id, form, image, fault, failing)} :
    /\ failing = 0 \/ \E f \in Attachments(files, employee_id) : f.name = failing
    /\ out.fault = fault
    /\ out.cleaned \/ failing = 0
    /\ out.saved \/ form = NoForm
    /\ Len(out.employees) <= MaxEmployees
    /\ out.fileSeq <= MaxFiles
    /\ employees' = out.employees
    /\ files' = out.files
    /\ fileSeq' = out.fileSeq
    /\ disk' = out.disk
    /\ UNCHANGED << checkins, evaluated, calls, resolved, locations, computed >>
    /\ last' = [NoCall EXCEPT !.op = "update", !.employee_id = employee_id,
                              !.image = image,
                              !.fault = IF failing = 0 THEN fault ELSE "delete",
                              !.encoded = out.encoded, !.temp_left = out.temp_left,
                              !.resp = out.resp]

\* ---------------------------------------------------- get_office_coordinates
NoOffice == [office_lat |-> None, office_long |-> None, geofence_radius |-> None]

\* "not x" of Python for None and for a number.
Falsy(x) == x = None \/ x = 0

GeofenceRadiusAsStored(employee) == employee.geofence_radius
\* employee.get("geofence_radius", 0.5)
GeofenceRadius(employee) ==
  IF employee.geofence_radius = None THEN DefaultRadius ELSE employee.geofence_radius

get_office_coordinates(emps, employee_id, fault) ==
  IF employee_id \notin 1..Len(emps) \/ fault = "office" THEN NoOffice
  ELSE LET employee == emps[employee_id]
       IN  IF Falsy(employee.office_latitude) \/ Falsy(employee.office_longitude)
           THEN NoOffice
           ELSE [office_lat |-> employee.office_latitude,
                 office_long |-> employee.office_longitude,
                 geofence_radius |-> GeofenceRadius(employee)]

OutsideGeofenceAtRadius(distance_from_office, geofence_radius) ==
  distance_from_office >= geofence_radius
OutsideGeofenceInMetres(distance_from_office, geofence_radius) ==
  distance_from_office > geofence_radius * 1000
\* "if distance_from_office > geofence_radius"
OutsideGeofence(distance_from_office, geofence_radius) ==
  distance_from_office > geofence_radius

\* "latitude and longitude" of "if match_result and latitude and longitude"
LocationSupplied(latitude, longitude) == latitude # None /\ longitude # None

\* -------------------------------------------------------------- match_face
\* The Match Evaluator of match_face: distance, confidence and decision, as
\* the responses carry them.
evaluate(ref_encoding, uploaded_encoding) ==
  LET distance == face_distance(ref_encoding, uploaded_encoding)
      confidence == Confidence(distance)
      match_result == MatchResult(distance)
  IN  [NoResp EXCEPT !.matched = match_result, !.distance = RoundDistance(distance),
                     !.confidence = RoundConfidence(confidence)]

checkin_aborted(result) == Error("Checkin failed")
\* "except Exception as checkin_error": the response when the check-in
\* could not be created.
checkin_failed(result) ==
  [result EXCEPT
     !.keys = {"matched", "distance", "confidence", "checkin_saved", "error"},
     !.error = "Checkin failed"]

MatchFaults == {"none", "encoder", "ref_encoder", "office", "checkin"}

\* image = 0 stands for a request without an image file, employee_id = 0
\* for one without employee_id.
match_face(employee_id, filename, image, latitude, longitude, fault) ==
  LET unchanged == [disk |-> disk, checkins |-> checkins, encoded |-> FALSE,
                    staged |-> FALSE, located |-> FALSE, fault |-> "none",
                    resp |-> NoResp]
      upload_path == filename
      written == [disk EXCEPT ![upload_path] = Upload(image)]
      corrected == correct_image_orientation(written, upload_path)
      uploaded_encodings == face_encodings(corrected.disk[upload_path].pic)
      ref_file_doc == get_employee_reference_image(files, employee_id)
      ref_image_path == ref_file_doc.file_name
      ref_corrected == correct_image_orientation(corrected.disk, ref_image_path)
      ref_encodings == face_encodings(ref_corrected.disk[ref_image_path].pic)
      result == evaluate(ref_encodings[1], uploaded_encodings[1])
      office == get_office_coordinates(employees, employee_id, fault)
      distance_from_office ==
        calculate_distance(latitude, longitude, office.office_lat, office.office_long)
      checkin_doc == [employee |-> employee_id, latitude |-> latitude,
                      longitude |-> longitude,
                      distance_from_office |-> distance_from_office,
                      confidence |-> result.confidence]
      finally(out) == [out EXCEPT !.disk = remove_files(out.disk, {upload_path})]
      staged == [unchanged EXCEPT !.disk = corrected.disk, !.staged = TRUE]
      encoded == [staged EXCEPT !.encoded = TRUE]
      compared == [encoded EXCEPT !.disk = ref_corrected.disk]
      located == [compared EXCEPT !.located = TRUE]
  IN  IF employee_id = 0 THEN [unchanged EXCEPT !.resp = Reason("missing_user_id")]
      ELSE IF image = 0 THEN [unchanged EXCEPT !.resp = Error("image")]
      ELSE IF ~corrected.ok
      THEN finally([staged EXCEPT !.resp = Reason("image_processing_failed")])
      ELSE IF fault = "encoder"
      THEN finally([encoded EXCEPT !.fault = fault, !.resp = Error("face_encodings")])
      ELSE IF ~HasFace(uploaded_encodings)
      THEN finally([encoded EXCEPT !.resp = Reason("no_face_in_uploaded_image")])
      ELSE IF fault = "store"
      THEN finally([encoded EXCEPT !.fault = fault, !.resp = Error("get_last_doc")])
      ELSE IF ref_file_doc = NoDoc
      THEN finally([encoded EXCEPT !.resp = Reason("reference_image_missing")])
      ELSE IF ~corrected.disk[ref_image_path].exists
      THEN finally([encoded EXCEPT !.resp = Reason("reference_image_file_not_found")])
      ELSE IF ~ref_corrected.ok
      THEN finally([encoded EXCEPT !.resp = Reason("reference_image_corruption")])
      ELSE IF fault = "ref_encoder"
      THEN finally([compared EXCEPT !.fault = fault, !.resp = Error("face_encodings")])
      ELSE IF ~HasFace(ref_encodings)
      THEN finally([compared EXCEPT !.resp = Reason("reference_image_has_no_face")])
      ELSE IF ~result.matched
      THEN finally([compared EXCEPT !.resp =
             [result EXCEPT !.keys = {"matched", "distance", "confidence", "reason"},
                            !.reason = "face_not_matching"]])
      ELSE IF ~LocationSupplied(latitude, longitude)
      THEN finally([compared EXCEPT !.resp =
             [result EXCEPT !.keys = {"matched", "distance", "confidence", "reason"}]])
      ELSE IF fault = "office" \/ Falsy(office.office_lat) \/ Falsy(office.office_long)
      THEN finally([located EXCEPT
             !.fault = IF fault = "office" THEN fault ELSE "none",
             !.resp =
             [result EXCEPT
                !.keys = {"matched", "distance", "confidence", "checkin_saved", "error"},
                !.error = "office_coordinates_not_set"]])
      ELSE IF OutsideGeofence(distance_from_office, office.geofence_radius)
      THEN finally([located EXCEPT !.resp =
             [result EXCEPT
                !.keys = {"matched", "distance", "confidence", "checkin_saved", "error",
                          "distance_from_office", "geofence_radius"},
                !.error = "outside_geofence_radius",
                !.distance_from_office = distance_from_office,
                !.geofence_radius = office.geofence_radius]])
      ELSE IF fault = "checkin"
      THEN finally([located EXCEPT !.fault = fault, !.resp = checkin_failed(result)])
      ELSE finally([located EXCEPT
             !.checkins = Append(checkins, checkin_doc),
             !.resp =
             [result EXCEPT
                !.keys = {"matched", "distance", "confidence", "checkin_saved",
                          "checkin_name", "distance_from_office", "geofence_radius"},
                !.checkin_saved = TRUE,
                !.distance_from_office = distance_from_office,
                !.geofence_radius = office.geofence_radius]])

\* The latitude and longitude form fields of a request.
NoLocation == << None, None >>
Locations == {NoLocation, << 1500, Meridian >>, << 1501, Meridian >>}

\* An upload under a name no file has leaves what an upload under
\* CaptureName leaves.  A location is listed with the requests that read it
\* and with those that find the stored reference damaged.
Match(employee_id, filename, image, latitude, longitude, fault) ==
  /\ filename = CaptureName \/ disk[filename].exists
  /\ \E out \in {match_face(employee_id, filename, image, latitude, longitude, fault)} :
       /\ out.fault = fault
       /\ out.staged \/ filename = CaptureName
       /\ \/ out.located
          \/ << latitude, longitude >> = NoLocation
          \/ out.resp.reason \in {"reference_image_corruption",
                                  "reference_image_has_no_face"}
       /\ Len(out.checkins) <= MaxCheckins
       /\ disk' = out.disk
       /\ checkins' = out.checkins
       /\ UNCHANGED << employees, files, fileSeq, evaluated, calls, resolved, locations,
                       computed >>
       /\ last' = [op |-> "match", employee_id |-> employee_id, image |-> image,
                   latitude |-> latitude, longitude |-> longitude, fault |-> fault,
                   encoded |-> out.encoded,
                   temp_left |-> out.staged /\ out.disk[filename].exists,
                   resp |-> out.resp]

\* ------------------------------------------------------------------ inputs
Images == {0} \cup Pics

\* An uploaded image that passes correct_image_orientation and in which the
\* encoder finds a face.
ValidFace(image) == image # 0 /\ Decodable(image) /\ HasFace(face_encodings(image))

\* The requests and faults of each handler.  A fault is listed only with the
\* requests that reach the call it strikes, and a form field or a location
\* only with the requests that read it; the other combinations repeat the
\* calls listed.
RegisterCalls ==
  {c \in Forms \X Images \X Faults :
     /\ c[3] = "encoder" => c[2] # 0 /\ Decodable(c[2])
     /\ c[3] \in {"employee_save", "file_save"} => ValidFace(c[2])
     /\ c[1] # NoForm => ValidFace(c[2]) /\ c[3] \in {"none", "file_save"}}

UpdateCalls ==
  {c \in (0..MaxEmployees) \X Forms \X Images \X Faults \X (0..MaxFiles) :
     /\ << c[2], c[3], c[4] >> \in RegisterCalls
     /\ c[5] # 0 => ValidFace(c[3]) /\ c[4] = "none" /\ c[2] = NoForm
     /\ c[1] = 0 => c[3] = 0}

MatchCalls ==
  {c \in (0..MaxEmployees) \X FileNames \X Images \X Locations \X MatchFaults :
     /\ c[1] = 0 => c[2] = CaptureName /\ c[3] = 0
     /\ c[3] = 0 => c[2] = CaptureName
     /\ c[5] = "encoder" => c[3] # 0 /\ Decodable(c[3])
     /\ c[5] \in {"ref_encoder", "office", "checkin"} => ValidFace(c[3])
     /\ c[5] \in {"office", "checkin"} => c[4] # NoLocation
     /\ c[4] # NoLocation => ValidFace(c[3]) /\ c[5] \notin {"encoder", "ref_encoder"}}

\* -------------------------------------------------------------------- Next
Next ==
  \/ \E c \in RegisterCalls : Register(c[1], c[2], c[3])
  \/ \E c \in UpdateCalls : Update(c[1], c[2], c[3], c[4], c[5])
  \/ \E employee_id \in 0..MaxEmployees, failing \in SUBSET files :
       Reset(employee_id, failing)
  \/ \E c \in MatchCalls : Match(c[1], c[2], c[3], c[4][1], c[4][2], c[5])

Spec == Init /\ [][Next]_vars

\* The lifecycle handlers alone.  They read neither the files on disk nor the
\* check-ins, and match_face leaves the Employee and File documents as they
\* are, so the documents reachable here are those reachable under Spec.
NextLifecycle ==
  \/ \E c \in RegisterCalls : Register(c[1], c[2], c[3])
  \/ \E c \in UpdateCalls : Update(c[1], c[2], c[3], c[4], c[5])
  \/ \E employee_id \in 0..MaxEmployees, failing \in SUBSET files :
       Reset(employee_id, failing)

SpecLifecycle == Init /\ [][NextLifecycle]_vars

\* Verification against the stores that registration and reset leave.
NextVerify ==
  \/ \E c \in RegisterCalls : Register(c[1], c[2], c[3])
  \/ \E employee_id \in 0..MaxEmployees, failing \in SUBSET files :
       Reset(employee_id, failing)
  \/ \E c \in MatchCalls : Match(c[1], c[2], c[3], c[4][1], c[4][2], c[5])

SpecVerify == Init /\ [][NextVerify]_vars

\* ------------------------------------------------------ the Match Evaluator
\* The embeddings the evaluator is applied to.
EmbeddingStep == 2500
MaxEmbedding == 200000
Embeddings ==
  {k * EmbeddingStep : k \in 0..(MaxEmbedding \div EmbeddingStep)}
    \cup {50, 150, 250, 49996, 50004, 50005, 50006, 99950, 100050}

Evaluate(ref_encoding, uploaded_encoding) ==
  /\ evaluated' = [ref_encoding |-> ref_encoding, uploaded_encoding |-> uploaded_encoding,
                   resp |-> evaluate(ref_encoding, uploaded_encoding)]
  /\ UNCHANGED << employees, files, fileSeq, disk, checkins, last, calls, resolved, locations, computed >>

NextEval ==
  \E ref_encoding \in {0, 50000}, uploaded_encoding \in Embeddings :
    Evaluate(ref_encoding, uploaded_encoding)

SpecEval == Init /\ [][NextEval]_vars

\* --------------------------------------------------------------- geofencing
\* Verification of a registered face against the anchors and radii an
\* Employee document can hold.  The Employee document belongs to the site:
\* its geofence_radius is set outside the handlers of this module.  One
\* Employee is registered; requests name it or an Employee that is not there.
GeoForms ==
  {NoForm, Form("bob", 1000, Meridian), Form("cy", 0, Meridian),
   Form("dee", 1000, 0)}
GeoLocations ==
  {NoLocation, << 1500, Meridian >>, << 1501, Meridian >>, << 1000, Meridian >>,
   << 1400, Meridian >>, << 1401, Meridian >>}
Radii == {0, 400}

SetGeofenceRadius(employee_id, radius) ==
  /\ employee_id \in 1..Len(employees)
  /\ employees[employee_id].geofence_radius = None
  /\ employees' = [employees EXCEPT ![employee_id].geofence_radius = radius]
  /\ last' = [NoCall EXCEPT !.op = "edit", !.employee_id = employee_id]
  /\ UNCHANGED << files, fileSeq, disk, checkins, evaluated, calls, resolved, locations, computed >>

NextGeofence ==
  \/ employees = << >> /\ \E form \in GeoForms : Register(form, 3, "none")
  \/ \E employee_id \in EmpIds, radius \in Radii : SetGeofenceRadius(employee_id, radius)
  \/ \E employee_id \in EmpIds, location \in GeoLocations,
        fault \in {"none", "office", "checkin"} :
       Match(employee_id, CaptureName, 3, location[1], location[2], fault)

SpecGeofence == Init /\ [][NextGeofence]_vars

\* ------------------------------------------------------ concurrent requests
\* Two workers serve requests at once.  A handler runs as a sequence of
\* steps; a step is atomic and ends at a read or write of what the workers
\* share: the Employee and File documents and the files directory.
AllIdle == \A p \in Procs : calls[p] = Idle

Returned(call, resp) ==
  [pc |-> "returned", op |-> call.op, employee_id |-> call.employee_id,
   image |-> call.image, alone |-> call.alone, resp |-> resp]

\* update_face up to the cleanup: the reference lookup, the staging and
\* validation of the uploaded image and its encoding.
UpdateStart(p, employee_id, image) ==
  LET ref_file_doc == get_employee_reference_image(files, employee_id)
      call == [pc |-> "cleanup", op |-> "update", employee_id |-> employee_id,
               image |-> image, upload_path_last |-> ref_file_doc.file_name,
               listed |-> {}, alone |-> NoResp]
  IN  /\ calls[p] = Idle
      /\ calls' = [calls EXCEPT ![p] =
           IF ref_file_doc = NoDoc
           THEN Returned(call, Reason("reference_image_missing"))
           ELSE IF image = 0 THEN Returned(call, Message("no_image_provided"))
           ELSE IF ~Decodable(image)
           THEN Returned(call, Message("image_processing_failed"))
           ELSE IF ~HasFace(face_encodings(image))
           THEN Returned(call, Message("no_face_detected"))
           ELSE call]
      /\ UNCHANGED << employees, files, fileSeq, disk, checkins, last, evaluated, resolved, locations, computed >>

\* attachments = frappe.get_all("File", ...)
UpdateList(p) ==
  /\ calls[p].pc = "cleanup"
  /\ calls' = [calls EXCEPT ![p].pc = "delete",
                            ![p].listed = Attachments(files, calls[p].employee_id)]
  /\ UNCHANGED << employees, files, fileSeq, disk, checkins, last, evaluated, resolved, locations, computed >>

\* The loop over attachments: frappe.get_doc("File", attach.name) raises for
\* a document that is gone, which ends the request with cleanup_failed; the
\* documents listed before it (the newer ones) are deleted by then.
UpdateDelete(p) ==
  LET listed == calls[p].listed
      missing == listed \ files
      older(f) == \E g \in missing : f.name <= g.name
      removed == delete_file_docs(files, disk, {f \in listed : ~older(f)})
  IN  /\ calls[p].pc = "delete"
      /\ files' = removed.files
      /\ disk' = removed.disk
      /\ calls' = [calls EXCEPT ![p] =
           IF missing = {} THEN [calls[p] EXCEPT !.pc = "save"]
           ELSE Returned(calls[p], Message("cleanup_failed"))]
      /\ UNCHANGED << employees, fileSeq, checkins, last, evaluated, resolved, locations, computed >>

\* The new Employee and File documents and the finally clause.
UpdateSave(p) ==
  LET employee_name == NewEmployeeName(employees)
      file_doc == NewFile(fileSeq, employee_name)
      written == [n \in FileNames |->
                    IF n = file_doc.file_name THEN Normalized(calls[p].image)
                    ELSE disk[n]]
  IN  /\ calls[p].pc = "save"
      /\ Len(employees) <= MaxEmployees
      /\ fileSeq <= MaxFiles
      /\ employees' = Append(employees, NewEmployee(NoForm))
      /\ files' = files \cup {file_doc}
      /\ fileSeq' = fileSeq + 1
      /\ disk' = remove_files(written, {calls[p].upload_path_last})
      /\ calls' = [calls EXCEPT ![p] = Returned(calls[p], Message("updated"))]
      /\ UNCHANGED << checkins, last, evaluated, resolved, locations, computed >>

NextConcurrentUpdate ==
  \/ AllIdle /\ Register(NoForm, 3, "none")
  \/ \E p \in Procs, employee_id \in EmpIds, image \in {PicNoFace, 3} :
       UpdateStart(p, employee_id, image)
  \/ \E p \in Procs : UpdateList(p)
  \/ \E p \in Procs : UpdateDelete(p)
  \/ \E p \in Procs : UpdateSave(p)

SpecConcurrentUpdate == Init /\ [][NextConcurrentUpdate]_vars

\* match_face up to the write of the upload to public/files/<file.filename>.
\* alone is the response of the request served with no other in flight.
MatchStart(p, employee_id, filename, image) ==
  /\ calls[p] = Idle
  /\ disk' = [disk EXCEPT ![filename] = Upload(image)]
  /\ calls' = [calls EXCEPT ![p] =
       [pc |-> "staged", op |-> "match", employee_id |-> employee_id,
        image |-> image, upload_path |-> filename,
        alone |-> match_face(employee_id, filename, image, None, None, "none").resp]]
  /\ UNCHANGED << employees, files, fileSeq, checkins, last, evaluated, resolved, locations, computed >>

\* correct_image_orientation(upload_path), and the finally clause when it
\* fails.
MatchNormalize(p) ==
  LET upload_path == calls[p].upload_path
      corrected == correct_image_orientation(disk, upload_path)
  IN  /\ calls[p].pc = "staged"
      /\ disk' = IF corrected.ok THEN corrected.disk
                 ELSE remove_files(disk, {upload_path})
      /\ calls' = [calls EXCEPT ![p] =
           IF corrected.ok THEN [calls[p] EXCEPT !.pc = "normalized"]
           ELSE Returned(calls[p], Reason("image_processing_failed"))]
      /\ UNCHANGED << employees, files, fileSeq, checkins, last, evaluated, resolved, locations, computed >>

\* face_recognition.load_image_file(upload_path) and all that follows it.
\* The handler goes on with the picture the file holds by now, as
\* match_face does for a request that uploads that picture; a file that is
\* gone makes load_image_file raise.
MatchFinish(p) ==
  LET upload_path == calls[p].upload_path
      out == match_face(calls[p].employee_id, upload_path, disk[upload_path].pic,
                        None, None, "none")
  IN  /\ calls[p].pc = "normalized"
      /\ disk' = IF disk[upload_path].exists THEN out.disk ELSE disk
      /\ calls' = [calls EXCEPT ![p] =
           Returned(calls[p], IF disk[upload_path].exists THEN out.resp
                              ELSE Error("load_image_file"))]
      /\ UNCHANGED << employees, files, fileSeq, checkins, last, evaluated, resolved, locations, computed >>

NextConcurrentVerify ==
  \/ AllIdle /\ Register(NoForm, 3, "none")
  \/ \E p \in Procs, employee_id \in EmpIds, filename \in FileNames,
        image \in Pics :
       MatchStart(p, employee_id, filename, image)
  \/ \E p \in Procs : MatchNormalize(p)
  \/ \E p \in Procs : MatchFinish(p)

SpecConcurrentVerify == Init /\ [][NextConcurrentVerify]_vars

\* ------------------------------------------------------ get_shift_time_range
\* A date is the year, month and day of date_str ("%Y-%m-%d"); a time of
\* day of a Shift Type is a duration since midnight in seconds (a
\* timedelta) or None; a time string "HH:mm:ss" is the triple of its
\* two-digit fields, so that the order of the strings is the order of the
\* triples.
Date(year, month, day) == [year |-> year, month |-> month, day |-> day]

IsLeap(year) == (year % 4 = 0 /\ year % 100 # 0) \/ year % 400 = 0
DaysInMonth(year, month) ==
  IF month = 2 THEN (IF IsLeap(year) THEN 29 ELSE 28)
  ELSE IF month \in {4, 6, 9, 11} THEN 30 ELSE 31

\* datetime.strptime(date_str, "%Y-%m-%d") + timedelta(days=1), formatted
\* back with strftime("%Y-%m-%d").
next_date(date) ==
  IF date.day < DaysInMonth(date.year, date.month)
  THEN Date(date.year, date.month, date.day + 1)
  ELSE IF date.month < 12 THEN Date(date.year, date.month + 1, 1)
  ELSE Date(date.year + 1, 1, 1)

\* frappe.utils.format_time(t, "HH:mm:ss")
format_time(t) == << t \div 3600, (t % 3600) \div 60, t % 60 >>

\* a < b of two "HH:mm:ss" strings
TimeStringLess(a, b) ==
  \/ a[1] < b[1]
  \/ a[1] = b[1] /\ a[2] < b[2]
  \/ a[1] = b[1] /\ a[2] = b[2] /\ a[3] < b[3]

\* datetime.strptime(f"{date_str} {time}", "%Y-%m-%d %H:%M:%S")
strptime(date, time) ==
  [date |-> date, hour |-> time[1], minute |-> time[2], second |-> time[3]]

default_end_noon == << 12, 0, 0 >>
default_start == << 9, 0, 0 >>
default_end == << 18, 0, 0 >>

\* shift is the Shift Type document of the Employee's shift, with the
\* Employee's shift field as shift_name; NoShift for an Employee without one.
NoShift ==
  [shift_name |-> None, start_time |-> None, end_time |-> None, is_night_shift |-> 0]

get_shift_time_range(shift, date) ==
  IF Falsy(shift.shift_name)
  THEN [start_dt |-> strptime(date, default_start), end_dt |-> strptime(date, default_end)]
  ELSE LET start_time == IF ~Falsy(shift.start_time) THEN format_time(shift.start_time)
                         ELSE << 9, 0, 0 >>
           end_time == IF ~Falsy(shift.end_time) THEN format_time(shift.end_time)
                       ELSE << 18, 0, 0 >>
       IN  IF shift.is_night_shift = 1 \/ TimeStringLess(end_time, start_time)
           THEN [start_dt |-> strptime(date, start_time),
                 end_dt |-> strptime(next_date(date), end_time)]
           ELSE [start_dt |-> strptime(date, start_time),
                 end_dt |-> strptime(date, end_time)]

\* The inputs of the resolver.
Times == {None, 0, 21600, 32400, 64800, 79200, 86399}
ShiftTypes ==
  [shift_name : {1}, start_time : Times, end_time : Times, is_night_shift : {0, 1}]
Dates ==
  {Date(2025, 6, 17), Date(2025, 6, 30), Date(2025, 12, 31), Date(2024, 2, 28),
   Date(2025, 2, 28)}

Resolve(shift, date) ==
  /\ resolved' = [called |-> TRUE, shift |-> shift, date |-> date,
                  window |-> get_shift_time_range(shift, date)]
  /\ UNCHANGED << employees, files, fileSeq, disk, checkins, last, evaluated, calls,
                  locations, computed >>

NextShift == \E shift \in {NoShift} \cup ShiftTypes, date \in Dates : Resolve(shift, date)

SpecShift == Init /\ [][NextShift]_vars

\* --------------------------------------------------------- location history
\* A Location document: the Employee it belongs to and its custom_timestamp,
\* a datetime.  a <= b of two datetimes compares year, month, day, hour,
\* minute and second in this order.
DatetimeKey(dt) ==
  << dt.date.year, dt.date.month, dt.date.day, dt.hour, dt.minute, dt.second >>

RECURSIVE KeyLE(_, _, _)
KeyLE(a, b, i) ==
  IF i > Len(a) THEN TRUE
  ELSE IF a[i] < b[i] THEN TRUE
  ELSE IF a[i] > b[i] THEN FALSE
  ELSE KeyLE(a, b, i + 1)

DatetimeLE(a, b) == KeyLE(DatetimeKey(a), DatetimeKey(b), 1)

\* ["custom_timestamp", "between", [start, end]]: the filter of the query,
\* SQL BETWEEN, which takes both ends.
Between(timestamp, start, end) == DatetimeLE(start, timestamp) /\ DatetimeLE(timestamp, end)

\* order_by="employee, custom_timestamp asc": the rows as a list in this
\* order (one employee's rows are in the order of their timestamps).
RowLE(a, b) ==
  \/ a.employee < b.employee
  \/ a.employee = b.employee /\ DatetimeLE(a.custom_timestamp, b.custom_timestamp)

RECURSIVE OrderBy(_)
OrderBy(rows) ==
  IF rows = {} THEN << >>
  ELSE LET first == CHOOSE r \in rows : \A s \in rows : RowLE(r, s)
       IN  << first >> \o OrderBy(rows \ {first})

EarliestEnd(dts) == CHOOSE d \in dts : \A e \in dts : DatetimeLE(d, e)
MinDatetime(dts) == CHOOSE d \in dts : \A e \in dts : DatetimeLE(d, e)
MaxDatetime(dts) == CHOOSE d \in dts : \A e \in dts : DatetimeLE(e, d)

\* frappe.throw: the request ends with an exception instead of a result.
Thrown(m) == [thrown |-> TRUE, message |-> m, rows |-> << >>]
Rows(rows) == [thrown |-> FALSE, message |-> "", rows |-> rows]

\* track_location: a Location document of the employee with the clock's
\* reading; now is frappe.utils.now_datetime().
track_location(locs, emps, employee_id, latitude, longitude, now) ==
  IF Falsy(employee_id) THEN [locations |-> locs, resp |-> Thrown("Employee ID is required")]
  ELSE IF employee_id \notin 1..Len(emps)
  THEN [locations |-> locs, resp |-> Thrown("Invalid Employee ID")]
  ELSE IF Falsy(latitude) \/ Falsy(longitude)
  THEN [locations |-> locs, resp |-> Thrown("Latitude and Longitude are required")]
  ELSE [locations |-> locs \cup {[employee |-> employee_id, custom_timestamp |-> now]},
        resp |-> [thrown |-> FALSE, message |-> "location_tracked", rows |-> << >>]]

\* get_historical_path(employee, date); shift is the Shift Type of the
\* employee, as get_shift_time_range reads it.
get_historical_path(locs, employee, shift, date) ==
  LET window == get_shift_time_range(shift, date)
  IN  Rows(OrderBy({loc \in locs :
                      /\ loc.employee = employee
                      /\ Between(loc.custom_timestamp, window.start_dt, window.end_dt)}))

\* get_filtered_historical_paths(date, department, branch, employee_id);
\* shifts gives each Employee's Shift Type and group the Employees the
\* department and branch filters select.
get_filtered_historical_paths(locs, emps, shifts, date, group, employee_id) ==
  IF ~Falsy(employee_id)
  THEN IF employee_id \notin 1..Len(emps) THEN Thrown("Invalid Employee ID")
       ELSE get_historical_path(locs, employee_id, shifts[employee_id], date)
  ELSE IF group = {} THEN Rows(<< >>)
  ELSE LET time_ranges == [e \in group |-> get_shift_time_range(shifts[e], date)]
           overall_start == MinDatetime({time_ranges[e].start_dt : e \in group})
           overall_end == MaxDatetime({time_ranges[e].end_dt : e \in group})
           fetched == {loc \in locs :
                         /\ loc.employee \in group
                         /\ Between(loc.custom_timestamp, overall_start, overall_end)}
       IN  Rows(OrderBy({loc \in fetched :
                           /\ DatetimeLE(time_ranges[loc.employee].start_dt,
                                         loc.custom_timestamp)
                           /\ DatetimeLE(loc.custom_timestamp,
                                         time_ranges[loc.employee].end_dt)}))

\* The inputs: the readings of the clock, the shifts of the Employees and
\* the day asked for.
MaxLocations == 2
HistoryDate == Date(2025, 6, 17)
At(date, hour, minute, second) ==
  [date |-> date, hour |-> hour, minute |-> minute, second |-> second]
Clock ==
  {At(HistoryDate, 8, 59, 59), At(HistoryDate, 9, 0, 0), At(HistoryDate, 12, 0, 0),
   At(HistoryDate, 18, 0, 0), At(HistoryDate, 18, 0, 1), At(HistoryDate, 22, 0, 0),
   At(next_date(HistoryDate), 6, 0, 0), At(next_date(HistoryDate), 6, 0, 1)}
DayShift ==
  [shift_name |-> 1, start_time |-> 32400, end_time |-> 64800, is_night_shift |-> 0]
NightShift ==
  [shift_name |-> 1, start_time |-> 79200, end_time |-> 21600, is_night_shift |-> 1]
HistoryShifts == {NoShift, DayShift, NightShift}

TrackLocation(employee_id, latitude, longitude, now) ==
  \E out \in {track_location(locations, employees, employee_id, latitude, longitude, now)} :
    /\ Cardinality(out.locations) <= MaxLocations
    /\ locations' = out.locations
    /\ computed' = [fn |-> "track_location", employee_id |-> employee_id, resp |-> out.resp]
    /\ UNCHANGED << employees, files, fileSeq, disk, checkins, last, evaluated, calls,
                    resolved >>

GetHistoricalPath(employee, shift, date) ==
  /\ computed' = [fn |-> "get_historical_path", employee_id |-> employee,
                  window |-> get_shift_time_range(shift, date),
                  resp |-> get_historical_path(locations, employee, shift, date)]
  /\ UNCHANGED << employees, files, fileSeq, disk, checkins, last, evaluated, calls,
                  resolved, locations >>

\* A request for one employee (group is not read) or for a group; the group
\* is what frappe.get_all("Employee", ...) returns, Employees of the store.
GetFilteredHistoricalPaths(shifts, date, group, employee_id) ==
  /\ group \subseteq 1..Len(employees)
  /\ computed' = [fn |-> "get_filtered_historical_paths", employee_id |-> employee_id,
                  group |-> group, shifts |-> shifts, date |-> date,
                  windows |-> [e \in EmpIds |-> get_shift_time_range(shifts[e], date)],
                  resp |-> get_filtered_historical_paths(locations, employees, shifts,
                                                         date, group, employee_id)]
  /\ UNCHANGED << employees, files, fileSeq, disk, checkins, last, evaluated, calls,
                  resolved, locations >>

NextHistory ==
  \/ Register(NoForm, 3, "none")
  \/ \E employee_id \in {0} \cup EmpIds, position \in {NoLocation, << 1000, Meridian >>},
        now \in Clock :
       TrackLocation(employee_id, position[1], position[2], now)
  \/ \E employee \in EmpIds, shift \in HistoryShifts :
       GetHistoricalPath(employee, shift, HistoryDate)
  \/ \E shifts \in [EmpIds -> HistoryShifts], group \in SUBSET EmpIds,
        employee_id \in {0} \cup EmpIds :
       /\ employee_id # 0 =>
            group = {} /\ \A e \in EmpIds \ {employee_id} : shifts[e] = NoShift
       /\ GetFilteredHistoricalPaths(shifts, HistoryDate, group, employee_id)

SpecHistory == Init /\ [][NextHistory]_vars

\* ---------------------------------------------------- stored reference files
\* The reference files lie in the site's public/files directory, which the
\* handlers do not own: a stored file can be damaged or replaced between two
\* requests.  match_face reads the file anew at every verification.  Any
\* collaborator of match_face can raise, the File store included.  One
\* Employee is registered; requests name it or an Employee that is not there.
DamagedPics == {PicCorrupt, PicNoFace}
VerifyFaults == MatchFaults \cup {"store"}

DamageFile(name, pic) ==
  /\ \E f \in files : f.file_name = name
  /\ disk[name].exists
  /\ disk[name].pic \notin DamagedPics
  /\ disk' = [disk EXCEPT ![name] = Upload(pic)]
  /\ last' = [NoCall EXCEPT !.op = "edit"]
  /\ UNCHANGED << employees, files, fileSeq, checkins, evaluated, calls, resolved,
                  locations, computed >>

NextReference ==
  \/ employees = << >> /\ \E form \in Forms : Register(form, 3, "none")
  \/ \E name \in StoredNames, pic \in DamagedPics : DamageFile(name, pic)
  \/ \E employee_id \in 0..MaxEmployees, image \in Images, location \in Locations,
        fault \in VerifyFaults :
       Match(employee_id, CaptureName, image, location[1], location[2], fault)

SpecReference == Init /\ [][NextReference]_vars

\* ------------------------------------------------- the haversine distance
\* calculate_distance on points given in whole degrees, computed step by
\* step in fixed point: sines and cosines in units of 1e-4, a in units of
\* 1e-8, the central angle c in units of 1e-3 radian, the distance in
\* kilometres.  The angles are multiples of 15 degrees.
SinTable ==
  [x \in {0, 15, 30, 45, 60, 75, 90} |->
     CASE x = 0 -> 0 [] x = 15 -> 2588 [] x = 30 -> 5000 [] x = 45 -> 7071
       [] x = 60 -> 8660 [] x = 75 -> 9659 [] x = 90 -> 10000]

\* math.sin and math.cos of an angle in degrees (after math.radians).
RECURSIVE sin(_)
sin(x) ==
  IF x < 0 THEN -sin(-x)
  ELSE IF x > 180 THEN -sin(x - 180)
  ELSE IF x > 90 THEN SinTable[180 - x]
  ELSE SinTable[x]
cos(x) == sin(90 - x)

CosSquared(lat1, lat2) == cos(lat1) * cos(lat1)
\* math.cos(lat1) * math.cos(lat2)
CosProduct(lat1, lat2) == cos(lat1) * cos(lat2)

\* math.asin(math.sqrt(a)) in units of 1e-2 degree: the angle whose squared
\* sine is a, by linear interpolation between the entries of the table.
asin_sqrt(a) ==
  LET Square(x) == SinTable[x] * SinTable[x]
      lower == CHOOSE x \in DOMAIN SinTable :
                 /\ Square(x) <= a
                 /\ \A y \in DOMAIN SinTable : Square(y) <= a => y <= x
  IN  IF lower = 90 THEN 9000
      ELSE 100 * lower
             + (1500 * ((a - Square(lower)) \div 1000))
                 \div ((Square(lower + 15) - Square(lower)) \div 1000)

EarthRadius == 6371

calculate_distance_km(lat1, lon1, lat2, lon2) ==
  LET dlon == lon2 - lon1
      dlat == lat2 - lat1
      a == sin(dlat \div 2) * sin(dlat \div 2)
             + (CosProduct(lat1, lat2) \div 10000)
                 * ((sin(dlon \div 2) * sin(dlon \div 2)) \div 10000)
      c == (2 * asin_sqrt(a) * 17453) \div 100000
  IN  (c * EarthRadius) \div 1000

\* The points: latitudes and longitudes in degrees.
Latitudes == {-90, -30, 0, 30, 60}
Longitudes == {-180, -90, -30, 0, 90, 180}

Measure(lat1, lon1, lat2, lon2) ==
  /\ computed' = [fn |-> "calculate_distance", lat1 |-> lat1, lon1 |-> lon1,
                  lat2 |-> lat2, lon2 |-> lon2,
                  km |-> calculate_distance_km(lat1, lon1, lat2, lon2)]
  /\ UNCHANGED << employees, files, fileSeq, disk, checkins, last, evaluated, calls,
                  resolved, locations >>

NextDistance ==
  \E lat1 \in Latitudes, lon1 \in Longitudes, lat2 \in Latitudes, lon2 \in Longitudes :
    Measure(lat1, lon1, lat2, lon2)

SpecDistance == Init /\ [][NextDistance]_vars

\* =================================================================== claims
\* The reference images of an identity: the File documents attached to it.
HasReference(employee_id) == Attachments(files, employee_id) # {}
Registered(employee_id) == employees[employee_id].face_registered = 1
StoresUnchanged == employees' = employees /\ files' = files /\ disk' = disk

\* C1: a CheckinEvent is emitted only by match_face, only with a matched
\* face (distance <= 0.5), a supplied location, a configured anchor of the
\* employee and a claimed location within the geofence radius; a response
\* with matched = false, or without a check-in decision, comes with no
\* CheckinEvent and no geofence data.
C1_CheckinOnlyWhenMatchedInsideGeofence ==
  [][ /\ checkins' # checkins =>
           LET event == checkins'[Len(checkins')]
               employee == employees[event.employee]
           IN  /\ checkins' = Append(checkins, event)
               /\ last'.op = "match"
               /\ last'.resp.matched
               /\ last'.resp.checkin_saved
               /\ last'.resp.distance * 10 <= Threshold
               /\ event.employee = last'.employee_id
               /\ event.employee \in 1..Len(employees)
               /\ event.latitude # None /\ event.longitude # None
               /\ employee.office_latitude \notin {None, 0}
               /\ employee.office_longitude \notin {None, 0}
               /\ Abs(event.latitude - employee.office_latitude)
                    <= (IF employee.geofence_radius = None THEN DefaultRadius
                        ELSE employee.geofence_radius)
               /\ event.longitude = employee.office_longitude
      /\ last'.op = "match" /\ last'.resp.checkin_saved => checkins' # checkins
      /\ last'.op = "match" /\ (~last'.resp.matched \/ "checkin_saved" \notin last'.resp.keys)
           => /\ checkins' = checkins
              /\ ~last'.resp.checkin_saved
              /\ "distance_from_office" \notin last'.resp.keys
    ]_vars

C1_Witness ==
  /\ last.op = "match"
  /\ last.resp.matched
  /\ last.resp.checkin_saved
  /\ Len(checkins) = 1

\* C2: for every pair of embeddings at distance d the Match Evaluator gives
\* matched exactly when d <= 0.5 and confidence = clamp(0, 100, (1 - d) * 100)
\* rounded to one decimal, which lies in [0, 100].
C2_MatchedIffWithinThreshold ==
  evaluated # NoEvaluation =>
    LET d == IF evaluated.ref_encoding >= evaluated.uploaded_encoding
             THEN evaluated.ref_encoding - evaluated.uploaded_encoding
             ELSE evaluated.uploaded_encoding - evaluated.ref_encoding
        raw == 100000 - d
        clamped == IF raw < 0 THEN 0 ELSE IF raw > 100000 THEN 100000 ELSE raw
    IN  /\ evaluated.resp.matched <=> d <= 50000
        /\ evaluated.resp.confidence = RoundHalfEven(clamped, 100)
        /\ evaluated.resp.confidence >= 0
        /\ evaluated.resp.confidence <= 1000

C2_Witness ==
  /\ evaluated # NoEvaluation
  /\ evaluated.uploaded_encoding - evaluated.ref_encoding = 50000
  /\ evaluated.resp.matched
  /\ evaluated.resp.confidence = 500

\* C3: after any sequence of register, update and reset calls every identity
\* has at most one reference image.
C3_AtMostOneReference ==
  \A employee_id \in 0..MaxEmployees :
    Cardinality(Attachments(files, employee_id)) <= 1

C3_Witness ==
  /\ last.op = "update"
  /\ last.resp.message = "updated"
  /\ \E employee_id \in 1..Len(employees) :
       Cardinality(Attachments(files, employee_id)) = 1

\* C4: after register, update or reset has returned, the registered flag of
\* every identity is set exactly when the identity has a reference image.
C4_FlagIffReference ==
  \A employee_id \in 1..Len(employees) :
    Registered(employee_id) <=> HasReference(employee_id)

\* C5: after a successful update of an identity that had a reference image,
\* that identity has exactly one reference image, whose content is the
\* normalized new image.
C5_UpdateInstallsOnSameIdentity ==
  last.op = "update" /\ last.resp.message = "updated" =>
    LET attachments == Attachments(files, last.employee_id)
    IN  /\ Cardinality(attachments) = 1
        /\ \A f \in attachments : disk[f.file_name] = Normalized(last.image)

\* C6: update of an identity that has a reference image, with an image in
\* which no face is detected, returns no_face_detected; and an update that
\* returns no_face_detected has changed no Employee, no File document and no
\* stored file.
C6_NoFaceLeavesReference ==
  [][ last'.op = "update" =>
        /\ ( /\ HasReference(last'.employee_id)
             /\ last'.image = PicNoFace
             /\ last'.fault = "none" )
             => last'.resp.message = "no_face_detected"
        /\ last'.resp.message = "no_face_detected" => StoresUnchanged
    ]_vars

C6_Witness ==
  /\ last.op = "update"
  /\ last.image = PicNoFace
  /\ last.resp.message = "no_face_detected"
  /\ HasReference(last.employee_id)

\* C7: a register request for a person who already has an identity with a
\* reference image, with a good image and no fault, returns
\* already_registered and changes nothing.
C7_SecondRegisterRejected ==
  [][ \A c \in RegisterCalls :
        ( /\ ValidFace(c[2])
          /\ c[3] = "none"
          /\ \E employee_id \in 1..Len(employees) :
               /\ employees[employee_id].first_name = c[1].first_name
               /\ HasReference(employee_id)
          /\ Register(c[1], c[2], c[3]) )
        => /\ last'.resp.message = "already_registered"
           /\ StoresUnchanged
    ]_vars

\* C8: whenever reset returns success for an existing identity, the
\* identity's registered flag is cleared and it has no attachment left.
C8_ResetClearsFlagAndAttachments ==
  last.op = "reset" /\ last.resp.status = "success" =>
    /\ ~Registered(last.employee_id)
    /\ ~HasReference(last.employee_id)

\* C9: a reset that follows a successful reset of the same identity returns
\* success with reset_but_no_attachments_found and changes nothing.
C9_ResetIdempotent ==
  [][ ( /\ last.op = "reset"
        /\ last.resp.status = "success"
        /\ last'.op = "reset"
        /\ last'.employee_id = last.employee_id )
      => /\ last'.resp.status = "success"
         /\ last'.resp.message = "reset_but_no_attachments_found"
         /\ StoresUnchanged
    ]_vars

GeofenceCase ==
  /\ last'.op = "match"
  /\ last'.resp.matched
  /\ last'.latitude # None /\ last'.longitude # None
  /\ last'.fault = "none"
Anchor == employees[last'.employee_id]
AnchorAccepted ==
  /\ Anchor.office_latitude \notin {None, 0}
  /\ Anchor.office_longitude \notin {None, 0}
AnchorDistance ==
  calculate_distance(last'.latitude, last'.longitude,
                     Anchor.office_latitude, Anchor.office_longitude)

C12_AnchorNotConfiguredIffUnregistered ==
  [][ GeofenceCase =>
        ( last'.resp.error = "office_coordinates_not_set"
            <=> ( Anchor.office_latitude = None \/ Anchor.office_longitude = None ) )
    ]_vars

\* C13: when the check-in cannot be recorded after a successful face match
\* and geofence check, verify returns matched = true, checkin_saved = false
\* and an error, with the distance and confidence of the face comparison.
C13_SinkFailureKeepsMatch ==
  [][ last'.op = "match" /\ last'.fault = "checkin" =>
        LET ref_file_doc == get_employee_reference_image(files, last'.employee_id)
            ref_encoding == face_encodings(disk[ref_file_doc.file_name].pic)[1]
            uploaded_encoding == face_encodings(last'.image)[1]
            d == Abs(ref_encoding - uploaded_encoding)
        IN  /\ last'.resp.matched
            /\ {"matched", "checkin_saved", "error", "distance", "confidence"}
                  \subseteq last'.resp.keys
            /\ ~last'.resp.checkin_saved
            /\ last'.resp.error = "Checkin failed"
            /\ last'.resp.distance = RoundHalfEven(d, 10)
            /\ last'.resp.confidence = RoundHalfEven(100000 - d, 100)
            /\ checkins' = checkins
    ]_vars

C13_Witness ==
  /\ last.op = "match"
  /\ last.fault = "checkin"
  /\ last.resp.matched
  /\ last.resp.error = "Checkin failed"

\* C14: when the identity has an accepted anchor and no geofence radius, the
\* geofence comparison of verify uses a radius of 0.5 km (500 m).
C14_DefaultRadiusHalfKilometre ==
  [][ GeofenceCase /\ AnchorAccepted /\ Anchor.geofence_radius = None =>
        /\ last'.resp.geofence_radius = 500
        /\ last'.resp.error = "outside_geofence_radius" <=> AnchorDistance > 500
        /\ last'.resp.checkin_saved <=> AnchorDistance <= 500
    ]_vars

C14_Witness ==
  /\ last.op = "match"
  /\ last.resp.error = "outside_geofence_radius"
  /\ last.resp.distance_from_office = 501
  /\ last.resp.geofence_radius = 500
  /\ employees[last.employee_id].geofence_radius = None

\* C15: every run of match_face ends with the captured-image file it staged
\* deleted: when it returns, the file it wrote is gone and the files
\* directory holds no file that was not there before the request.
C15_VerifyDeletesStagedFile ==
  [][ last'.op = "match" =>
        /\ ~last'.temp_left
        /\ \A n \in FileNames : disk'[n].exists => disk[n].exists
    ]_vars

C15_Witness ==
  /\ last.op = "match"
  /\ last.encoded
  /\ last.resp.reason = "no_face_in_uploaded_image"
  /\ ~disk[CaptureName].exists

\* C16: every run of register_face and of update_face ends with the image
\* file it staged deleted, whatever it returns.
C16_LifecycleDeletesStagedFile ==
  last.op \in {"register", "update"} => ~last.temp_left

\* C17: once two concurrent update calls on the same identity, each of which
\* found the identity's reference image when it started, have both
\* returned, the identity has exactly one reference image.
C17_ConcurrentUpdatesLeaveOneReference ==
  ( /\ \A p \in Procs :
         /\ calls[p].pc = "returned" /\ calls[p].op = "update"
         /\ calls[p].resp.reason # "reference_image_missing"
    /\ calls["w1"].employee_id = calls["w2"].employee_id )
  => Cardinality(Attachments(files, calls["w1"].employee_id)) = 1

\* C18: each of two concurrent verify requests returns the response it
\* returns when it is served alone.
C18_ConcurrentVerifyIndependent ==
  \A p \in Procs :
    calls[p].pc = "returned" /\ calls[p].op = "match"
      => calls[p].resp = calls[p].alone

\* C19: for an identity with no configured shift the window is
\* (date 09:00:00, date 18:00:00), both on the given date.
C19_DefaultShiftWindow ==
  resolved.called /\ resolved.shift.shift_name = None =>
    /\ resolved.window.start_dt =
         [date |-> resolved.date, hour |-> 9, minute |-> 0, second |-> 0]
    /\ resolved.window.end_dt =
         [date |-> resolved.date, hour |-> 18, minute |-> 0, second |-> 0]

C19_Witness ==
  /\ resolved.called
  /\ resolved.shift = NoShift
  /\ resolved.date = Date(2025, 6, 17)
  /\ resolved.window.end_dt.date = Date(2025, 6, 17)
  /\ resolved.window.end_dt.hour = 18

\* C20: for an identity with a shift whose start and end time of day are
\* set, the start timestamp is on the given date, and the end timestamp is
\* on the next day exactly when the shift is flagged as a night shift or its
\* end time of day is earlier than its start time of day, and on the given
\* date otherwise.
C20_OvernightEndsNextDay ==
  ( /\ resolved.called
    /\ resolved.shift.shift_name # None
    /\ resolved.shift.start_time # None
    /\ resolved.shift.end_time # None )
  => LET overnight == \/ resolved.shift.is_night_shift = 1
                      \/ resolved.shift.end_time < resolved.shift.start_time
         tomorrow == next_date(resolved.date)
     IN  /\ resolved.window.start_dt.date = resolved.date
         /\ overnight => resolved.window.end_dt.date = tomorrow
         /\ ~overnight => resolved.window.end_dt.date = resolved.date

\* The half-open window [start, end).
DatetimeLT(a, b) == DatetimeLE(a, b) /\ a # b
BetweenHalfOpen(timestamp, start, end) ==
  DatetimeLE(start, timestamp) /\ DatetimeLT(timestamp, end)

\* The employees a history query asked for and the rows it returned.
Queried ==
  IF computed.fn = "get_historical_path" \/ computed.employee_id # 0
  THEN {computed.employee_id} ELSE computed.group
QueryWindow(employee) ==
  IF computed.fn = "get_historical_path" THEN computed.window
  ELSE computed.windows[employee]
RowReturned(loc) == \E i \in 1..Len(computed.resp.rows) : computed.resp.rows[i] = loc
HistoryAnswered ==
  /\ computed.fn \in {"get_historical_path", "get_filtered_historical_paths"}
  /\ ~computed.resp.thrown

\* C21: a location-history query returns the rows of the employees asked
\* for whose timestamp lies in the half-open shift window [start, end): a
\* row stamped exactly start is returned, a row stamped exactly end is not.
C21_HistoryWindowHalfOpen ==
  HistoryAnswered =>
    \A loc \in locations :
      loc.employee \in Queried =>
        ( RowReturned(loc) <=>
            BetweenHalfOpen(loc.custom_timestamp, QueryWindow(loc.employee).start_dt,
                            QueryWindow(loc.employee).end_dt) )

\* C22: update_face on an identity that has no reference image returns
\* reference_image_missing and changes nothing: the Employee documents, the
\* File documents, the files on disk and the check-ins stay as they were.
C22_UpdateWithoutReferenceChangesNothing ==
  [][ last'.op = "update" /\ ~HasReference(last'.employee_id) =>
        /\ last'.resp = Reason("reference_image_missing")
        /\ StoresUnchanged
        /\ fileSeq' = fileSeq
        /\ checkins' = checkins ]_vars

C22_Witness ==
  /\ last.op = "update"
  /\ last.employee_id \in 1..Len(employees)
  /\ employees[last.employee_id].face_registered = 0
  /\ ValidFace(last.image)
  /\ last.resp.reason = "reference_image_missing"
  /\ files # {}

\* C23: an update_face that returns an error exposes no partial state: the
\* reference image of the identity (its File documents and their files on
\* disk) and its registered flag are what they were before the call.
C23_FailedUpdateChangesNothing ==
  [][ last'.op = "update" /\ last'.resp.message # "updated" =>
        LET employee_id == last'.employee_id
        IN  /\ Attachments(files', employee_id) = Attachments(files, employee_id)
            /\ \A f \in Attachments(files, employee_id) :
                 disk'[f.file_name] = disk[f.file_name]
            /\ employee_id \in 1..Len(employees) =>
                 employees'[employee_id].face_registered =
                   employees[employee_id].face_registered ]_vars

\* The reference image of the employee of the request, as stored before it.
ReferenceDoc(employee_id) == get_employee_reference_image(files, employee_id)
ReferencePic(employee_id) == disk[ReferenceDoc(employee_id).file_name].pic
ReferenceOnDisk(employee_id) ==
  /\ ReferenceDoc(employee_id) # NoDoc
  /\ disk[ReferenceDoc(employee_id).file_name].exists

\* C24: match_face processes the stored reference image anew at every
\* verification: when the stored file cannot be decoded the response is
\* matched = false with reference_image_corruption, when it shows no face
\* the response is matched = false with reference_image_has_no_face, and in
\* both cases no check-in is created.
C24_DamagedReferenceNeverMatches ==
  [][ ( /\ last'.op = "match"
        /\ last'.fault = "none"
        /\ ValidFace(last'.image)
        /\ ReferenceOnDisk(last'.employee_id) ) =>
        LET pic == ReferencePic(last'.employee_id)
        IN  /\ ~Decodable(pic) =>
                 /\ last'.resp = Reason("reference_image_corruption")
                 /\ checkins' = checkins
            /\ Decodable(pic) /\ ~HasFace(face_encodings(pic)) =>
                 /\ last'.resp = Reason("reference_image_has_no_face")
                 /\ checkins' = checkins ]_vars

C24_Witness ==
  /\ last.op = "match"
  /\ ValidFace(last.image)
  /\ last.latitude # None
  /\ last.resp.reason = "reference_image_has_no_face"
  /\ ~last.resp.matched

\* C25: match_face never ends with an uncaught exception: whatever the
\* request and whichever collaborator raises, it returns a response that
\* carries matched, and a response with matched = false or one given after
\* a collaborator raised carries a reason or an error.
C25_VerifyAlwaysAnswers ==
  last.op = "match" =>
    /\ "matched" \in last.resp.keys
    /\ (~last.resp.matched \/ last.fault # "none") =>
         last.resp.keys \cap {"reason", "error"} # {}

C25_Witness ==
  /\ last.op = "match"
  /\ last.fault = "store"
  /\ ValidFace(last.image)
  /\ last.resp = Error("get_last_doc")

\* C26: the geofence distance is symmetric, distance(A, B) = distance(B, A),
\* and the distance of a point to itself is zero.
C26_DistanceSymmetricZeroOnSelf ==
  computed.fn = "calculate_distance" =>
    /\ computed.km =
         calculate_distance_km(computed.lat2, computed.lon2, computed.lat1, computed.lon1)
    /\ (computed.lat1 = computed.lat2 /\ computed.lon1 = computed.lon2) =>
         computed.km = 0

C26_Witness ==
  /\ computed.fn = "calculate_distance"
  /\ computed.lat1 = 30 /\ computed.lon1 = 0
  /\ computed.lat2 = 60 /\ computed.lon2 = 90
  /\ computed.km > 0

\* The time of day of a datetime, as "HH:mm:ss".
TimeOfDay(dt) == << dt.hour, dt.minute, dt.second >>

\* C27: for a shift with both times set, the time of day of the resolved
\* window's start is the shift's start_time and that of its end is the
\* shift's end_time, for every time from 00:00:00 to 23:59:59, 00:00:00
\* included.
C27_WindowKeepsShiftTimes ==
  ( /\ resolved.called
    /\ resolved.shift.shift_name # None
    /\ resolved.shift.start_time # None
    /\ resolved.shift.end_time # None )
  => /\ TimeOfDay(resolved.window.start_dt) = format_time(resolved.shift.start_time)
     /\ TimeOfDay(resolved.window.end_dt) = format_time(resolved.shift.end_time)

\* C28: match_face leaves the identity and reference store as it was: on
\* every exit path the Employee documents, the File documents and the
\* content of every reference file are the same after the call as before.
C28_VerifyLeavesReferenceStore ==
  [][ last'.op = "match" =>
        /\ employees' = employees
        /\ files' = files
        /\ \A f \in files : disk'[f.file_name] = disk[f.file_name] ]_vars

\* C29: match_face answers matched = true only if the embedding of the
\* captured image is within 0.5 of the embedding of the reference image as
\* it was stored before the request, whatever file name the upload carries
\* (the stored reference's own file name included).
C29_MatchedOnlyNearStoredReference ==
  [][ last'.op = "match" /\ last'.resp.matched =>
        /\ ReferenceOnDisk(last'.employee_id)
        /\ HasFace(face_encodings(ReferencePic(last'.employee_id)))
        /\ ValidFace(last'.image)
        /\ face_distance(face_encodings(ReferencePic(last'.employee_id))[1],
                         face_encodings(last'.image)[1]) <= Threshold ]_vars

\* C30: after reset_face_registration has returned success for an identity
\* and before a registration or an update installs a reference for it, a
\* match_face against the identity answers matched = false with
\* reference_image_missing and creates no check-in, and an update_face of
\* the identity answers reference_image_missing.  Stated for the request
\* that follows the reset.
C30_NoReferenceAfterReset ==
  [][ ( /\ last.op = "reset"
        /\ last.resp.status = "success"
        /\ last'.employee_id = last.employee_id ) =>
        /\ (last'.op = "match" /\ ValidFace(last'.image) /\ last'.fault = "none") =>
             /\ last'.resp = Reason("reference_image_missing")
             /\ checkins' = checkins
        /\ last'.op = "update" =>
             last'.resp = Reason("reference_image_missing") ]_vars

DayAfter(dt) == [dt EXCEPT !.date = next_date(dt.date)]

RowsOf(employee) == SelectSeq(computed.resp.rows, LAMBDA row : row.employee = employee)

\* C33: for a group of employees get_filtered_historical_paths returns
\* exactly the locations that lie within the shift window of their own
\* employee, and restricted to one employee of the group the result is that
\* of the single-employee query for the same date, also when the employees
\* of the group have different or overnight shifts.
C33_GroupQueryEqualsSingleQueries ==
  ( /\ computed.fn = "get_filtered_historical_paths"
    /\ computed.employee_id = 0 ) =>
    /\ ~computed.resp.thrown
    /\ \A loc \in locations :
         RowReturned(loc) <=>
           /\ loc.employee \in computed.group
           /\ Between(loc.custom_timestamp, computed.windows[loc.employee].start_dt,
                      computed.windows[loc.employee].end_dt)
    /\ \A employee \in computed.group :
         RowsOf(employee) =
           get_filtered_historical_paths(locations, employees, computed.shifts,
                                         computed.date, {}, employee).rows

C33_Witness ==
  /\ computed.fn = "get_filtered_historical_paths"
  /\ computed.employee_id = 0
  /\ computed.group = {1, 2}
  /\ computed.shifts[1] = DayShift
  /\ computed.shifts[2] = NightShift
  /\ Len(computed.resp.rows) = 1
  /\ \E loc \in locations :
       /\ loc.employee = 1
       /\ ~RowReturned(loc)
       /\ Between(loc.custom_timestamp, computed.windows[2].start_dt,
                  computed.windows[2].end_dt)

====
